---------------------------- MODULE Spec2Model ----------------------------
(***************************************************************************)
(* Model of X8Website (packages/@cre8ivelogix/xler8r-lite/lib/             *)
(* x8-website.ts): the domain computations getSiteDomain,                  *)
(* getCertificateDomains, getDistributionDomains, the identifier           *)
(* conversion domainNameToPascalCase, and the constructor that declares    *)
(* the resources of the website in its scope.                              *)
(*                                                                         *)
(* A JavaScript string is a sequence of one-character strings.  An         *)
(* optional value is a sequence of length 0 (undefined) or 1 (the value).  *)
(***************************************************************************)
EXTENDS Integers, Sequences, FiniteSets, TLC

VARIABLES
    props,                \* the X8WebSiteProps object the caller holds
    siteDomain,           \* optional: last result of getSiteDomain(props)
    certificateDomains,   \* optional: last result of getCertificateDomains(props)
    distributionDomains,  \* optional: last result of getDistributionDomains(props)
    invocations,          \* number of X8Website constructions made with props
    website,              \* optional: what the last construction declared
    domainName,           \* argument of the domainNameToPascalCase call
    identifier            \* optional: result of domainNameToPascalCase(domainName)

vars == <<props, siteDomain, certificateDomains, distributionDomains,
          invocations, website, domainName, identifier>>

-----------------------------------------------------------------------------
(* Bounds of the model. *)

\* Longest string of the enumerated domainNameToPascalCase arguments.
MaxLen == 3
\* Longest waAdditionalDomainNames list of the enumerated requests.
MaxAdditional == 2
\* Most constructions made with one props object.
MaxInvocations == 2

-----------------------------------------------------------------------------
(* Optional values and JavaScript string primitives. *)

Undefined == << >>
Some(x) == <<x>>
IsDefined(o) == Len(o) = 1
Value(o) == o[1]

LowerCaseLetters == <<"a", "b", "c", "d", "e", "f", "g", "h", "i", "j", "k", "l", "m",
                      "n", "o", "p", "q", "r", "s", "t", "u", "v", "w", "x", "y", "z">>
UpperCaseLetters == <<"A", "B", "C", "D", "E", "F", "G", "H", "I", "J", "K", "L", "M",
                      "N", "O", "P", "Q", "R", "S", "T", "U", "V", "W", "X", "Y", "Z">>
DigitChars == {"0", "1", "2", "3", "4", "5", "6", "7", "8", "9"}

IsLower(c) == \E i \in DOMAIN LowerCaseLetters : LowerCaseLetters[i] = c
IsUpper(c) == \E i \in DOMAIN UpperCaseLetters : UpperCaseLetters[i] = c
IsDigit(c) == c \in DigitChars
IsAlnum(c) == IsLower(c) \/ IsUpper(c) \/ IsDigit(c)

ToUpperCase(c) ==
    IF IsLower(c)
    THEN UpperCaseLetters[CHOOSE i \in DOMAIN LowerCaseLetters : LowerCaseLetters[i] = c]
    ELSE c

ToLowerCase(c) ==
    IF IsUpper(c)
    THEN LowerCaseLetters[CHOOSE i \in DOMAIN UpperCaseLetters : UpperCaseLetters[i] = c]
    ELSE c

LowerAll(s) == [i \in DOMAIN s |-> ToLowerCase(s[i])]

RECURSIVE Concat(_)
\* The strings of a list joined with nothing between them.
Concat(ss) == IF ss = << >> THEN << >> ELSE Head(ss) \o Concat(Tail(ss))

\* String.prototype.indexOf, 0-based, -1 when t does not occur in s.
IndexOf(s, t) ==
    LET at == {i \in 0..(Len(s) - Len(t)) : SubSeq(s, i + 1, i + Len(t)) = t}
    IN  IF at = {} THEN -1 ELSE CHOOSE i \in at : \A j \in at : i <= j

\* String.prototype.lastIndexOf, 0-based, -1 when t does not occur in s.
LastIndexOf(s, t) ==
    LET at == {i \in 0..(Len(s) - Len(t)) : SubSeq(s, i + 1, i + Len(t)) = t}
    IN  IF at = {} THEN -1 ELSE CHOOSE i \in at : \A j \in at : i >= j

\* String.prototype.replace with a string pattern: the first occurrence only.
ReplaceFirst(s, t, by) ==
    LET i == IndexOf(s, t)
    IN  IF i = -1 THEN s
        ELSE SubSeq(s, 1, i) \o by \o SubSeq(s, i + Len(t) + 1, Len(s))

\* String.prototype.slice(0, end): a negative end counts from the end of s.
Slice0(s, end) ==
    LET e  == IF end < 0 THEN Len(s) + end ELSE end
        e2 == IF e < 0 THEN 0 ELSE IF e > Len(s) THEN Len(s) ELSE e
    IN  SubSeq(s, 1, e2)

RECURSIVE Split(_, _)
\* String.prototype.split on a one-character separator: "" yields [""].
Split(s, sep) ==
    LET at == {i \in DOMAIN s : s[i] = sep}
    IN  IF at = {} THEN <<s>>
        ELSE LET i == CHOOSE k \in at : \A j \in at : k <= j
             IN  <<SubSeq(s, 1, i - 1)>> \o Split(SubSeq(s, i + 1, Len(s)), sep)

RECURSIVE Count(_, _)
\* Number of elements of the sequence s equal to x.
Count(s, x) ==
    IF s = << >> THEN 0
    ELSE (IF Head(s) = x THEN 1 ELSE 0) + Count(Tail(s), x)

-----------------------------------------------------------------------------
(* pascalCase of the pascal-case package, as domainNameToPascalCase        *)
(* imports and calls it: noCase with the pascal-case transform and an      *)
(* empty delimiter.                                                        *)

\* The "\0" noCase puts at every word boundary.
NUL == "NUL"

RECURSIVE SplitLowerUpper(_)
\* replace(/([a-z0-9])([A-Z])/g, "$1\0$2")
SplitLowerUpper(s) ==
    IF Len(s) < 2 THEN s
    ELSE IF (IsLower(s[1]) \/ IsDigit(s[1])) /\ IsUpper(s[2])
         THEN <<s[1], NUL, s[2]>> \o SplitLowerUpper(SubSeq(s, 3, Len(s)))
         ELSE <<s[1]>> \o SplitLowerUpper(Tail(s))

RECURSIVE SplitUpperUpperLower(_)
\* replace(/([A-Z])([A-Z][a-z])/g, "$1\0$2")
SplitUpperUpperLower(s) ==
    IF Len(s) < 3 THEN s
    ELSE IF IsUpper(s[1]) /\ IsUpper(s[2]) /\ IsLower(s[3])
         THEN <<s[1], NUL, s[2], s[3]>> \o SplitUpperUpperLower(SubSeq(s, 4, Len(s)))
         ELSE <<s[1]>> \o SplitUpperUpperLower(Tail(s))

RECURSIVE DropNonAlnum(_)
DropNonAlnum(s) ==
    IF s = << >> \/ IsAlnum(Head(s)) THEN s ELSE DropNonAlnum(Tail(s))

RECURSIVE StripNonAlnum(_)
\* replace(/[^A-Z0-9]+/gi, "\0"): every run of other characters becomes one "\0".
StripNonAlnum(s) ==
    IF s = << >> THEN << >>
    ELSE IF IsAlnum(Head(s)) THEN <<Head(s)>> \o StripNonAlnum(Tail(s))
         ELSE <<NUL>> \o StripNonAlnum(DropNonAlnum(s))

\* noCase's trim of the "\0" around the string.
TrimNul(s) ==
    LET keep == {i \in DOMAIN s : s[i] # NUL}
    IN  IF keep = {} THEN << >>
        ELSE SubSeq(s, CHOOSE i \in keep : \A j \in keep : i <= j,
                       CHOOSE i \in keep : \A j \in keep : i >= j)

\* pascalCaseTransform(input, index), index 0-based.
PascalCaseTransform(input, index) ==
    IF input = << >> THEN << >>
    ELSE IF index > 0 /\ IsDigit(input[1])
         THEN <<"_", input[1]>> \o LowerAll(Tail(input))
         ELSE <<ToUpperCase(input[1])>> \o LowerAll(Tail(input))

\* The words noCase finds in input.
NoCaseWords(input) ==
    Split(TrimNul(StripNonAlnum(SplitUpperUpperLower(SplitLowerUpper(input)))), NUL)

PascalCase(input) ==
    LET words == NoCaseWords(input)
    IN  Concat([i \in DOMAIN words |-> PascalCaseTransform(words[i], i - 1)])

-----------------------------------------------------------------------------
(* X8Website.domainNameToPascalCase *)

Dot == <<"D", "o", "t">>

RECURSIVE DotJoined(_)
\* The loop of domainNameToPascalCase: each part's pascalCase, then "Dot".
DotJoined(domainParts) ==
    IF domainParts = << >> THEN << >>
    ELSE PascalCase(Head(domainParts)) \o Dot \o DotJoined(Tail(domainParts))

\* The same loop with the pascalCase call left out.
DomainNameToPascalCaseNoPascal(d) ==
    LET domain == Concat([i \in DOMAIN Split(d, ".") |-> Split(d, ".")[i] \o Dot])
    IN  Slice0(ReplaceFirst(domain, <<"-">>, << >>), LastIndexOf(domain, Dot))

\* The result left with its trailing "Dot".
DomainNameToPascalCaseNoSlice(d) ==
    ReplaceFirst(DotJoined(Split(d, ".")), <<"-">>, << >>)

\* The result cut at the first "Dot" instead of the last.
DomainNameToPascalCaseFirstDot(d) ==
    LET domain == DotJoined(Split(d, "."))
    IN  Slice0(ReplaceFirst(domain, <<"-">>, << >>), IndexOf(domain, Dot))

DomainNameToPascalCase(d) ==
    LET domain == DotJoined(Split(d, "."))
    IN  Slice0(ReplaceFirst(domain, <<"-">>, << >>), LastIndexOf(domain, Dot))


-----------------------------------------------------------------------------
(* X8Website: the domain computations *)

Www == <<"w", "w", "w">>

\* JavaScript truthiness of an optional string: undefined and "" are falsy.
Truthy(o) == IsDefined(o) /\ Value(o) # << >>

\* getSiteDomain without the comparison with "www".
GetSiteDomainNoWwwTest(p) ==
    IF Truthy(p.waSubDomain)
    THEN Www \o <<".">> \o Value(p.waSubDomain) \o <<".">> \o p.waDomainName
    ELSE Www \o <<".">> \o p.waDomainName

GetSiteDomain(p) ==
    IF Truthy(p.waSubDomain) /\ Value(p.waSubDomain) # Www
    THEN Www \o <<".">> \o Value(p.waSubDomain) \o <<".">> \o p.waDomainName
    ELSE Www \o <<".">> \o p.waDomainName

RECURSIVE WithoutDuplicates(_)
\* A list with every later repetition of an entry left out.
WithoutDuplicates(s) ==
    IF s = << >> THEN << >>
    ELSE LET front == WithoutDuplicates(SubSeq(s, 1, Len(s) - 1))
         IN  IF Count(front, s[Len(s)]) > 0 THEN front ELSE Append(front, s[Len(s)])

\* getCertificateDomains with the www-prefixed site domain as first entry.
GetCertificateDomainsWwwFirst(p) ==
    <<GetSiteDomain(p)>>
        \o (IF IsDefined(p.waAdditionalDomainNames)
            THEN Value(p.waAdditionalDomainNames) ELSE << >>)

GetCertificateDomains(p) ==
    LET first == IF Truthy(p.waSubDomain) /\ Value(p.waSubDomain) # Www
                 THEN <<Value(p.waSubDomain) \o <<".">> \o p.waDomainName>>
                 ELSE <<p.waDomainName>>
    IN  IF IsDefined(p.waAdditionalDomainNames)
        THEN first \o Value(p.waAdditionalDomainNames)
        ELSE first

\* getDistributionDomains with the site domain put first.
GetDistributionDomainsSiteFirst(p) ==
    <<GetSiteDomain(p)>> \o GetCertificateDomains(p)

\* getDistributionDomains that appends the site domain to the list without
\* its duplicates when the list has it already.
GetDistributionDomainsUnlessListed(p) ==
    IF Count(GetCertificateDomains(p), GetSiteDomain(p)) > 0
    THEN WithoutDuplicates(GetCertificateDomains(p) \o <<GetSiteDomain(p)>>)
             \o <<GetSiteDomain(p)>>
    ELSE GetCertificateDomains(p) \o <<GetSiteDomain(p)>>

\* getDistributionDomains without the site domain.
GetDistributionDomainsNoSite(p) ==
    GetCertificateDomains(p)

GetDistributionDomains(p) ==
    GetCertificateDomains(p) \o <<GetSiteDomain(p)>>


-----------------------------------------------------------------------------
(* X8Website: the constructor.  A declaration is a construct the           *)
(* constructor creates with itself as scope, under a logical name (id).    *)
(* The scope refuses a second child with a name it already has: the        *)
(* constructor then ends with that error, keeping what it declared so far. *)

ZoneSuffix == <<"Z", "o", "n", "e">>
CertSuffix == <<"C", "e", "r", "t">>
DistributionSuffix == <<"D", "i", "s", "t", "r", "i", "b", "u", "t", "i", "o", "n">>
CfAliasRecordSuffix == <<"C", "f", "A", "l", "i", "a", "s", "R", "e", "c", "o", "r", "d">>
WwwAliasRecordSuffix == <<"W", "w", "w", "A", "l", "i", "a", "s", "R", "e", "c", "o", "r", "d">>
UrlOutputSuffix == <<"U", "r", "l", "O", "u", "t", "p", "u", "t">>
OriginAccessIdentityId == <<"O", "r", "i", "g", "i", "n", "A", "c", "c", "e", "s", "s",
                            "I", "d", "e", "n", "t", "i", "t", "y">>
WebsiteBucketId == <<"W", "e", "b", "s", "i", "t", "e", "B", "u", "c", "k", "e", "t">>
DeployWithInvalidationId == <<"D", "e", "p", "l", "o", "y", "W", "i", "t", "h", "I", "n",
                              "v", "a", "l", "i", "d", "a", "t", "i", "o", "n">>
BucketId == <<"B", "u", "c", "k", "e", "t">>
CertificateId == <<"C", "e", "r", "t", "i", "f", "i", "c", "a", "t", "e">>
DistributionIdId == <<"D", "i", "s", "t", "r", "i", "b", "u", "t", "i", "o", "n", "I", "d">>
WebsiteUrlId == <<"W", "e", "b", "s", "i", "t", "e", "U", "r", "l">>
Https == <<"h", "t", "t", "p", "s", ":", "/", "/">>

GetObject == "s3:GetObject"

\* One declaration: its logical name, its kind, the hostname or value it
\* carries, and for an alias record what it points at.
Declaration(id, type, name, target) ==
    [id |-> id, type |-> type, name |-> name, target |-> target]

\* The actions of the bucket policy statement: the caller's list (or a new
\* empty one) after the push of the read action.
BucketPolicyActions(p) ==
    (IF IsDefined(p.waBucketPolicyActions) THEN Value(p.waBucketPolicyActions) ELSE << >>)
        \o <<GetObject>>

\* The props object after the constructor: the push acts on the caller's list.
PropsAfterPush(p) ==
    IF IsDefined(p.waBucketPolicyActions)
    THEN [p EXCEPT !.waBucketPolicyActions = Some(BucketPolicyActions(p))]
    ELSE p

\* The certificate with repeated subject alternative names left out.
CertificateWithoutDuplicates(p) ==
    [domainName |-> GetSiteDomain(p),
     subjectAlternativeNames |-> WithoutDuplicates(GetCertificateDomains(p))]

\* The DnsValidatedCertificate the constructor declares.
Certificate(p) ==
    [domainName |-> GetSiteDomain(p),
     subjectAlternativeNames |-> GetCertificateDomains(p)]

\* The alias record and the output of one certificate domain, both named
\* after the base domain instead of after the certificate domain.
CertNameDeclarationsBaseNamed(p, certName) ==
    <<Declaration(DomainNameToPascalCase(p.waDomainName) \o WwwAliasRecordSuffix,
                  "ARecord", certName, "CfAliasRecord"),
      Declaration(DomainNameToPascalCase(p.waDomainName) \o UrlOutputSuffix,
                  "CfnOutput", certName, "none")>>

\* The body of certSans.map with the alias record pointed at the
\* distribution itself instead of at the primary alias record.
CertNameDeclarationsToDistribution(p, certName) ==
    <<Declaration(DomainNameToPascalCase(certName) \o WwwAliasRecordSuffix,
                  "ARecord", certName, "Distribution"),
      Declaration(DomainNameToPascalCase(certName) \o UrlOutputSuffix,
                  "CfnOutput", certName, "none")>>

\* The body of certSans.map: the alias record and the output of one domain.
CertNameDeclarations(p, certName) ==
    <<Declaration(DomainNameToPascalCase(certName) \o WwwAliasRecordSuffix,
                  "ARecord", certName, "CfAliasRecord"),
      Declaration(DomainNameToPascalCase(certName) \o UrlOutputSuffix,
                  "CfnOutput", certName, "none")>>

\* Every declaration the constructor makes when none is refused, in order.
Declarations(p) ==
    LET domainNameId  == DomainNameToPascalCase(p.waDomainName)
        wwwSiteDomain == GetSiteDomain(p)
        certSans      == GetCertificateDomains(p)
    IN  <<Declaration(domainNameId \o ZoneSuffix, "HostedZone", p.waDomainName, "none"),
          Declaration(OriginAccessIdentityId, "OriginAccessIdentity", << >>, "none"),
          Declaration(WebsiteBucketId, "WaBucket", wwwSiteDomain, "none"),
          Declaration(domainNameId \o CertSuffix, "DnsValidatedCertificate",
                      wwwSiteDomain, "none"),
          Declaration(domainNameId \o DistributionSuffix, "Distribution", << >>, "none"),
          Declaration(DeployWithInvalidationId, "BucketDeployment", << >>, "none"),
          Declaration(domainNameId \o CfAliasRecordSuffix, "ARecord",
                      wwwSiteDomain, "Distribution")>>
        \o Concat([i \in DOMAIN certSans |-> CertNameDeclarations(p, certSans[i])])
        \o <<Declaration(BucketId, "CfnOutput", wwwSiteDomain, "none"),
             Declaration(CertificateId, "CfnOutput", << >>, "none"),
             Declaration(DistributionIdId, "CfnOutput", << >>, "none"),
             Declaration(WebsiteUrlId, "CfnOutput", Https \o wwwSiteDomain, "none")>>

\* Positions of the declarations whose name an earlier declaration has taken.
Refused(decls) ==
    {i \in DOMAIN decls : \E j \in 1..(i - 1) : decls[j].id = decls[i].id}

\* The declarations made before the first refused one.
Declared(decls) ==
    IF Refused(decls) = {} THEN decls
    ELSE SubSeq(decls, 1, (CHOOSE i \in Refused(decls) : \A j \in Refused(decls) : i <= j) - 1)

\* What one run of the constructor leaves: the policy statement's actions,
\* the certificate, the distribution's hostnames, the declarations made, and
\* whether the scope raised its duplicate-name error.
Website(p) ==
    [policyActions   |-> BucketPolicyActions(p),
     certificate     |-> Certificate(p),
     distributionDomainNames |-> GetDistributionDomains(p),
     declared        |-> Declared(Declarations(p)),
     raised          |-> Refused(Declarations(p)) # {}]


-----------------------------------------------------------------------------
(* The requests and the domain names the model enumerates. *)

\* Every string of at most n characters of the set chars.
StringsUpTo(chars, n) == UNION {[1..k -> chars] : k \in 0..n}

BaseDomains == {<<"b", ".", "c">>, <<"a", "-", "b", ".", "c">>}

\* waSubDomain: left out, empty, "www", or a subdomain of its own.
SubDomains == {Undefined, Some(<< >>), Some(Www), Some(<<"a">>)}

\* Entries of waAdditionalDomainNames: the primary domain of subdomain "a"
\* under "b.c", the site domain of "b.c", and two domains whose identifiers
\* are those of the base domains.
AdditionalDomainNames ==
    {<<"a", ".", "b", ".", "c">>, <<"w", "w", "w", ".", "b", ".", "c">>,
     <<"B", ".", "c">>, <<"a", "_", "b", ".", "c">>}

AdditionalDomainLists ==
    {Undefined} \cup {Some(l) : l \in StringsUpTo(AdditionalDomainNames, MaxAdditional)}

BucketPolicyActionLists == {Undefined, Some(<< >>), Some(<<"s3:ListBucket">>)}

Requests ==
    [waDomainName : BaseDomains,
     waSubDomain : SubDomains,
     waAdditionalDomainNames : AdditionalDomainLists,
     waBucketPolicyActions : BucketPolicyActionLists]

ExampleCom == <<"e", "x", "a", "m", "p", "l", "e", ".", "c", "o", "m">>
MySiteExampleCom == <<"m", "y", "-", "s", "i", "t", "e", ".",
                      "e", "x", "a", "m", "p", "l", "e", ".", "c", "o", "m">>
MyCoolAppExampleCom == <<"m", "y", "-", "c", "o", "o", "l", "-", "a", "p", "p", ".",
                         "e", "x", "a", "m", "p", "l", "e", ".", "c", "o", "m">>

DomainNameChars == {"a", "b", "B", "-", "_", "."}

\* The arguments of domainNameToPascalCase: every short string of
\* DomainNameChars, and some longer names.
DomainNames ==
    StringsUpTo(DomainNameChars, MaxLen)
        \cup {ExampleCom, MySiteExampleCom, MyCoolAppExampleCom,
              <<"a", "D", "o", "t", "B">>, <<"a", "-", "1", ".", "b", "2", "C">>}

\* The request with only the base domain given.
RequestFor(d) ==
    [waDomainName |-> d, waSubDomain |-> Undefined,
     waAdditionalDomainNames |-> Undefined, waBucketPolicyActions |-> Undefined]

-----------------------------------------------------------------------------
(* The state machine. *)

NoCalls ==
    /\ siteDomain = Undefined
    /\ certificateDomains = Undefined
    /\ distributionDomains = Undefined
    /\ invocations = 0
    /\ website = Undefined
    /\ domainName = props.waDomainName
    /\ identifier = Undefined

\* A caller holds one of the requests; nothing has been called yet.
Init ==
    /\ props \in Requests
    /\ NoCalls

\* A caller holds a request for one of the domain names.
InitDomainName ==
    /\ props \in {RequestFor(d) : d \in DomainNames}
    /\ NoCalls

\* website.getSiteDomain(props)
GetSiteDomainCall ==
    /\ siteDomain' = Some(GetSiteDomain(props))
    /\ UNCHANGED <<props, certificateDomains, distributionDomains, invocations,
                   website, domainName, identifier>>

\* website.getCertificateDomains(props)
GetCertificateDomainsCall ==
    /\ certificateDomains' = Some(GetCertificateDomains(props))
    /\ UNCHANGED <<props, siteDomain, distributionDomains, invocations,
                   website, domainName, identifier>>

\* website.getDistributionDomains(props)
GetDistributionDomainsCall ==
    /\ distributionDomains' = Some(GetDistributionDomains(props))
    /\ UNCHANGED <<props, siteDomain, certificateDomains, invocations,
                   website, domainName, identifier>>

\* new X8Website(scope, name, props), in a scope that has no child of that name.
Construct ==
    /\ invocations < MaxInvocations
    /\ invocations' = invocations + 1
    /\ website' = Some(Website(props))
    /\ props' = PropsAfterPush(props)
    /\ UNCHANGED <<siteDomain, certificateDomains, distributionDomains,
                   domainName, identifier>>

\* X8Website.domainNameToPascalCase(domainName)
DomainNameToPascalCaseCall ==
    /\ identifier' = Some(DomainNameToPascalCase(domainName))
    /\ UNCHANGED <<props, siteDomain, certificateDomains, distributionDomains,
                   invocations, website, domainName>>

Next ==
    \/ GetSiteDomainCall
    \/ GetCertificateDomainsCall
    \/ GetDistributionDomainsCall
    \/ Construct

Spec == Init /\ [][Next]_vars

NextDomainName == DomainNameToPascalCaseCall

SpecDomainName == InitDomainName /\ [][NextDomainName]_vars


-----------------------------------------------------------------------------
(* Properties of the domain computations, under Spec. *)

\* waAdditionalDomainNames as a list: empty when left out.
AdditionalOf(p) ==
    IF IsDefined(p.waAdditionalDomainNames) THEN Value(p.waAdditionalDomainNames) ELSE << >>

\* The subdomain is given and is not "www".
SubDomainPresent(p) == IsDefined(p.waSubDomain) /\ Value(p.waSubDomain) # Www

\* The subdomain is given, is not empty and is not "www".
SubDomainUsed(p) == SubDomainPresent(p) /\ Value(p.waSubDomain) # << >>

WwwSubBase(p) == Www \o <<".">> \o Value(p.waSubDomain) \o <<".">> \o p.waDomainName
WwwBase(p) == Www \o <<".">> \o p.waDomainName
SubBase(p) == Value(p.waSubDomain) \o <<".">> \o p.waDomainName

\* C1 as stated: getSiteDomain returns "www." + subDomain + "." + baseDomain
\* whenever subDomain is present and not "www", and "www." + baseDomain in
\* every other case.
C1_SiteDomainWhenPresent ==
    IsDefined(siteDomain) =>
        Value(siteDomain) = IF SubDomainPresent(props) THEN WwwSubBase(props)
                            ELSE WwwBase(props)

\* C1 amended: getSiteDomain returns "www." + subDomain + "." + baseDomain
\* when subDomain is present, not empty and not "www", and "www." + baseDomain
\* in every other case (subDomain absent, empty, or "www"); the additional
\* domains never influence the result.
C1_SiteDomain ==
    IsDefined(siteDomain) =>
        Value(siteDomain) = IF SubDomainUsed(props) THEN WwwSubBase(props)
                            ELSE WwwBase(props)

\* getSiteDomain has run on a request with a subdomain of its own and with
\* additional domains.
C1_Witness ==
    /\ IsDefined(siteDomain)
    /\ SubDomainUsed(props)
    /\ Len(AdditionalOf(props)) > 0

\* C2 as stated: getCertificateDomains returns the bare primary domain
\* (subDomain + "." + baseDomain whenever subDomain is present and not "www",
\* otherwise baseDomain) followed by the additional domains in input order.
C2_CertificateDomainsWhenPresent ==
    IsDefined(certificateDomains) =>
        Value(certificateDomains) =
            <<IF SubDomainPresent(props) THEN SubBase(props) ELSE props.waDomainName>>
                \o AdditionalOf(props)

\* C2 amended: getCertificateDomains returns the bare primary domain
\* (subDomain + "." + baseDomain when subDomain is present, not empty and not
\* "www", otherwise baseDomain, never www-prefixed) followed by every
\* additional domain in input order, repetitions kept; its length is
\* 1 + len(additionalDomains).
C2_CertificateDomains ==
    IsDefined(certificateDomains) =>
        /\ Value(certificateDomains) =
               <<IF SubDomainUsed(props) THEN SubBase(props) ELSE props.waDomainName>>
                   \o AdditionalOf(props)
        /\ Len(Value(certificateDomains)) = 1 + Len(AdditionalOf(props))
        /\ Len(Value(certificateDomains)) >= 1

\* getCertificateDomains has run on a request with a subdomain of its own
\* and an additional domain given twice.
C2_Witness ==
    /\ IsDefined(certificateDomains)
    /\ SubDomainUsed(props)
    /\ \E i, j \in DOMAIN AdditionalOf(props) :
           i # j /\ AdditionalOf(props)[i] = AdditionalOf(props)[j]

\* C3: getDistributionDomains is getCertificateDomains with getSiteDomain
\* appended as the last element; its length is 2 + len(additionalDomains).
C3_DistributionDomains ==
    IsDefined(distributionDomains) =>
        /\ Value(distributionDomains) =
               Append(GetCertificateDomains(props), GetSiteDomain(props))
        /\ Len(Value(distributionDomains)) = 2 + Len(AdditionalOf(props))

\* getDistributionDomains has run on a request with additional domains.
C3_Witness ==
    /\ IsDefined(distributionDomains)
    /\ Len(AdditionalOf(props)) = MaxAdditional

\* C4 as stated: the site domain occurs exactly once in the distribution
\* domains: it is the last element and no earlier element equals it.
C4_SiteDomainOnce ==
    IsDefined(distributionDomains) =>
        LET names == Value(distributionDomains)
        IN  /\ names[Len(names)] = GetSiteDomain(props)
            /\ Count(names, GetSiteDomain(props)) = 1

\* C4 amended: the site domain is the last element of the distribution
\* domains, and it occurs among the earlier elements exactly as often as the
\* additional domains list it: once in all when they do not list it.
C4_SiteDomainLast ==
    IsDefined(distributionDomains) =>
        LET names == Value(distributionDomains)
        IN  /\ names[Len(names)] = GetSiteDomain(props)
            /\ Count(names, GetSiteDomain(props))
                   = 1 + Count(AdditionalOf(props), GetSiteDomain(props))

\* getDistributionDomains has run on a request whose additional domains
\* list the site domain.
C4_Witness ==
    /\ IsDefined(distributionDomains)
    /\ Count(AdditionalOf(props), GetSiteDomain(props)) > 0


-----------------------------------------------------------------------------
(* Properties of domainNameToPascalCase, under SpecDomainName. *)

\* The identifier of every enumerated domain name.
IdentifierOf == [d \in DomainNames |-> DomainNameToPascalCase(d)]

RECURSIVE JoinedByDot(_)
\* Words with "Dot" between them and none after the last.
JoinedByDot(words) ==
    IF Len(words) = 0 THEN << >>
    ELSE IF Len(words) = 1 THEN words[1]
         ELSE words[1] \o Dot \o JoinedByDot(Tail(words))

\* The labels of a domain name: what stands between its dots.
Labels(d) == Split(d, ".")

\* Every label has at least one character.
LabelsNonEmpty(d) == \A i \in DOMAIN Labels(d) : Labels(d)[i] # << >>

\* Every label has at least one character and only lowercase letters.
LowerCaseLabels(d) ==
    /\ LabelsNonEmpty(d)
    /\ \A i \in DOMAIN d : d[i] = "." \/ IsLower(d[i])

\* C5 as stated: of several '-' in the domain name only the first is removed,
\* the others are still present in the identifier.
C5_OnlyFirstHyphenRemoved ==
    (IsDefined(identifier) /\ Count(domainName, "-") >= 2) =>
        Count(Value(identifier), "-") = Count(domainName, "-") - 1

\* C5 amended: the identifier holds no '-' at all, however many the domain
\* name has: the word-capitalisation of each label removes every '-' before
\* the single-occurrence removal runs, which then finds none to remove.
C5_NoHyphenLeft ==
    IsDefined(identifier) => Count(Value(identifier), "-") = 0

\* domainNameToPascalCase has run on a domain name with several '-'.
C5_Witness ==
    IsDefined(identifier) /\ Count(domainName, "-") >= 2

\* C6: for a domain name of non-empty labels the identifier is the
\* word-capitalised labels joined by "Dot", with no trailing "Dot" and
\* nothing lost or left over by the truncation; "example.com" yields
\* "ExampleDotCom" and "my-site.example.com" yields "MySiteDotExampleDotCom".
C6_LabelsJoinedByDot ==
    IsDefined(identifier) =>
        /\ LabelsNonEmpty(domainName) =>
               Value(identifier) =
                   JoinedByDot([i \in DOMAIN Labels(domainName) |->
                                    PascalCase(Labels(domainName)[i])])
        /\ domainName = ExampleCom =>
               Value(identifier) = <<"E", "x", "a", "m", "p", "l", "e",
                                     "D", "o", "t", "C", "o", "m">>
        /\ domainName = MySiteExampleCom =>
               Value(identifier) = <<"M", "y", "S", "i", "t", "e", "D", "o", "t",
                                     "E", "x", "a", "m", "p", "l", "e",
                                     "D", "o", "t", "C", "o", "m">>

\* domainNameToPascalCase has run on "my-site.example.com".
C6_Witness ==
    IsDefined(identifier) /\ domainName = MySiteExampleCom

\* C7 as stated: no other domain name has the identifier of this one.
C7_Injective ==
    IsDefined(identifier) =>
        \A d \in DomainNames : d # domainName => IdentifierOf[d] # Value(identifier)

\* C7 amended: the same domain name always yields the same identifier, and
\* two different domain names whose labels are non-empty and made of
\* lowercase letters only yield different identifiers.  (Names that differ
\* in letter case, in separator characters or by a label that spells "Dot"
\* can share an identifier.)
C7_InjectiveOnLowerCaseLabels ==
    IsDefined(identifier) =>
        /\ Value(identifier) = IdentifierOf[domainName]
        /\ LowerCaseLabels(domainName) =>
               \A d \in DomainNames :
                   (LowerCaseLabels(d) /\ d # domainName) =>
                       IdentifierOf[d] # Value(identifier)

\* domainNameToPascalCase has run on a name of several lowercase labels, one
\* of the several such names enumerated.
C7_Witness ==
    /\ IsDefined(identifier)
    /\ LowerCaseLabels(domainName)
    /\ Len(Labels(domainName)) >= 2
    /\ \E d \in DomainNames :
           LowerCaseLabels(d) /\ d # domainName /\ Len(Labels(d)) >= 2

-----------------------------------------------------------------------------
(* Properties of the constructor, under Spec. *)

\* No entry of the list occurs twice.
NoRepetition(s) == \A i, j \in DOMAIN s : i # j => s[i] # s[j]

\* The entries of a list, as a set.
Entries(s) == {s[i] : i \in DOMAIN s}

\* The certificate domains as the request gives them: the bare primary
\* domain, then the additional domains.
PrimaryThenAdditional(p) ==
    <<IF SubDomainUsed(p) THEN SubBase(p) ELSE p.waDomainName>> \o AdditionalOf(p)

\* The site domain as the request gives it.
WwwPrimary(p) == IF SubDomainUsed(p) THEN WwwSubBase(p) ELSE WwwBase(p)

\* C8 as stated: the certificate is declared for the site domain, with the
\* certificate domains minus duplicates as subject alternative names: no
\* hostname occurs twice among them.
C8_SansWithoutDuplicates ==
    IsDefined(website) =>
        LET cert == Value(website).certificate
        IN  /\ cert.domainName = WwwPrimary(props)
            /\ Entries(cert.subjectAlternativeNames) = Entries(PrimaryThenAdditional(props))
            /\ NoRepetition(cert.subjectAlternativeNames)

\* C8 amended: the certificate is declared for the site domain, with the
\* certificate domains unchanged as subject alternative names: same entries,
\* same order, and every repetition of the request kept.
C8_SansAreCertificateDomains ==
    IsDefined(website) =>
        LET cert == Value(website).certificate
        IN  /\ cert.domainName = WwwPrimary(props)
            /\ cert.subjectAlternativeNames = PrimaryThenAdditional(props)

\* A website has been constructed from a request whose additional domains
\* repeat an entry and repeat the primary domain.
C8_Witness ==
    /\ IsDefined(website)
    /\ ~NoRepetition(AdditionalOf(props))
    /\ Count(AdditionalOf(props), PrimaryThenAdditional(props)[1]) > 0

\* C9: a construction leaves every field of the request as it was, and the
\* bucket policy of a later construction grants the same actions as that of
\* the one before: the caller's actions and the read action, once.
C9_RequestUnchanged ==
    [][/\ props' = props
       /\ (IsDefined(website) /\ IsDefined(website')) =>
              Value(website').policyActions = Value(website).policyActions]_vars

\* The identifiers of the certificate domains are pairwise different.
CertificateIdentifiersDiffer(p) ==
    \A i, j \in DOMAIN PrimaryThenAdditional(p) :
        i # j => DomainNameToPascalCase(PrimaryThenAdditional(p)[i])
                     # DomainNameToPascalCase(PrimaryThenAdditional(p)[j])

\* Number of declarations of a construction that none of them ends: seven
\* before the certificate domains' records, two per certificate domain, four
\* outputs after them.
AllDeclarations(p) == 7 + 2 * Len(PrimaryThenAdditional(p)) + 4

\* C10 as stated: for every request the logical names of the declarations
\* are pairwise different and no duplicate-name error is raised.
C10_NoDuplicateName ==
    IsDefined(website) =>
        /\ ~Value(website).raised
        /\ NoRepetition([i \in DOMAIN Declarations(props) |-> Declarations(props)[i].id])

\* C10 amended: the logical names are pairwise different, and the
\* construction declares all of them without a duplicate-name error, exactly
\* when the identifiers of the certificate domains are pairwise different;
\* when two certificate domains share an identifier (a repeated entry, an
\* entry equal to the primary domain, or two names with one identifier) the
\* scope raises the duplicate-name error and the construction ends there.
C10_DuplicateNameIffSharedIdentifier ==
    IsDefined(website) =>
        LET w == Value(website)
        IN  /\ w.raised <=> ~CertificateIdentifiersDiffer(props)
            /\ NoRepetition([i \in DOMAIN w.declared |-> w.declared[i].id])
            /\ ~w.raised => Len(w.declared) = AllDeclarations(props)
            /\ w.raised => Len(w.declared) < AllDeclarations(props)

\* A website has been constructed from a request with two additional
\* domains, all certificate domains having identifiers of their own.
C10_Witness ==
    /\ IsDefined(website)
    /\ Len(AdditionalOf(props)) >= 2
    /\ CertificateIdentifiersDiffer(props)
    /\ ~Value(website).raised


-----------------------------------------------------------------------------
(* Properties of the alias records and of the hostnames, under Spec. *)

\* The alias records a construction declared, in the order of declaration,
\* each with the hostname it is named after and what it points at.
AliasRecords(w) ==
    LET records == SelectSeq(w.declared, LAMBDA d : d.type = "ARecord")
    IN  [i \in DOMAIN records |->
             [name |-> records[i].name, target |-> records[i].target]]

\* The primary alias record of the request, then the alias records of its
\* first n certificate domains.
PrimaryThenRecords(p, n) ==
    <<[name |-> WwwPrimary(p), target |-> "Distribution"]>>
        \o [i \in 1..n |->
                [name |-> PrimaryThenAdditional(p)[i], target |-> "CfAliasRecord"]]

\* Number of certificate domains before the first whose identifier an
\* earlier one has: all of them when the identifiers differ.
BeforeSharedIdentifier(p) ==
    LET certs  == PrimaryThenAdditional(p)
        shared == {i \in DOMAIN certs :
                      \E j \in 1..(i - 1) :
                          DomainNameToPascalCase(certs[j]) = DomainNameToPascalCase(certs[i])}
    IN  IF shared = {} THEN Len(certs)
        ELSE (CHOOSE i \in shared : \A j \in shared : i <= j) - 1

\* C11 as stated: the construction declares one primary alias record, named
\* after the site domain and pointing at the distribution, and after it one
\* alias record per certificate domain, in order, named after that domain
\* and pointing at the primary alias record.
C11_RecordPerCertificateDomain ==
    IsDefined(website) =>
        AliasRecords(Value(website))
            = PrimaryThenRecords(props, Len(PrimaryThenAdditional(props)))

\* C11 amended: the construction declares one primary alias record, named
\* after the site domain and pointing at the distribution, and after it one
\* alias record, named after the domain and pointing at the primary alias
\* record, for each certificate domain in order up to the first whose
\* identifier an earlier certificate domain has: for all 1 +
\* len(additionalDomains) of them when the identifiers are pairwise
\* different, and for none from that entry on otherwise.
C11_RecordPerCertificateDomainUntilShared ==
    IsDefined(website) =>
        /\ AliasRecords(Value(website))
               = PrimaryThenRecords(props, BeforeSharedIdentifier(props))
        /\ CertificateIdentifiersDiffer(props) =>
               Len(AliasRecords(Value(website))) = 2 + Len(AdditionalOf(props))

\* A website has been constructed with its primary alias record and the
\* alias records of three certificate domains.
C11_Witness ==
    /\ IsDefined(website)
    /\ Len(AliasRecords(Value(website))) = 2 + MaxAdditional
    /\ Len(AdditionalOf(props)) = MaxAdditional

\* The hostnames the distribution accepts.
DistributionHostnames(w) == Entries(w.distributionDomainNames)

\* The hostnames the certificate covers.
CertificateHostnames(w) ==
    {w.certificate.domainName} \cup Entries(w.certificate.subjectAlternativeNames)

\* The hostnames that have an alias record.
RecordHostnames(w) == {AliasRecords(w)[i].name : i \in DOMAIN AliasRecords(w)}

\* C12 as stated: the hostnames the distribution accepts are the hostnames
\* the certificate covers and are the hostnames of the alias records.
C12_SameHostnames ==
    IsDefined(website) =>
        /\ DistributionHostnames(Value(website)) = CertificateHostnames(Value(website))
        /\ DistributionHostnames(Value(website)) = RecordHostnames(Value(website))

\* C12 amended: the hostnames the distribution accepts are the hostnames the
\* certificate covers, the site domain and the certificate domains of the
\* request; every alias record is named after one of them; and they all have
\* an alias record when the construction ends without the duplicate-name
\* error, which is when the identifiers of the certificate domains are
\* pairwise different.
C12_HostnamesCoveredRecordsAmongThem ==
    IsDefined(website) =>
        LET w == Value(website)
        IN  /\ DistributionHostnames(w) = CertificateHostnames(w)
            /\ DistributionHostnames(w)
                   = {WwwPrimary(props)} \cup Entries(PrimaryThenAdditional(props))
            /\ RecordHostnames(w) \subseteq DistributionHostnames(w)
            /\ CertificateIdentifiersDiffer(props) =>
                   RecordHostnames(w) = DistributionHostnames(w)

\* A website has been constructed whose distribution accepts four
\* hostnames, each with an alias record.
C12_Witness ==
    /\ IsDefined(website)
    /\ Cardinality(DistributionHostnames(Value(website))) = 2 + MaxAdditional
    /\ RecordHostnames(Value(website)) = DistributionHostnames(Value(website))

=============================================================================
